---- MODULE Spec2Model ----
(***************************************************************************)
(* Client-side authentication and role-gated navigation of the internship  *)
(* marketplace frontend: the Auth State Store, the API client's handling   *)
(* of rejected responses, the Route Guard, and the LoginPage, SignupPage   *)
(* and UnauthorizedPage handlers.                                          *)
(*                                                                         *)
(* Text is a sequence of one-character strings.  A page that is not        *)
(* mounted holds no component state: its record is kept at the initial     *)
(* value.  A request whose page was unmounted before the response stays in *)
(* flight as a stale request: its continuation still runs.                 *)
(***************************************************************************)
EXTENDS Integers, Sequences, FiniteSets, TLC

\* ------------------------------------------------------------------ bounds
NumTokens == 2
MaxPasswordLen == 8
MaxInFlight == 2
MaxSignupInFlight == 1
MaxContactLen == 11
MaxPending == 3

\* ------------------------------------------------------- program constants
MinLoginPassword == 6
MinSignupPassword == 8
ContactDigits == 10
Unauthorized == 401
StrictModeRuns == 2

VARIABLES
    session,      \* Auth State Store, in memory: [token, role]
    storage,      \* durable client storage: [token, role]
    route,        \* the route being displayed
    loginPage,    \* LoginPage component state: [email, password, role, loading]
    loginNet,     \* POST /auth/login requests in flight: [live, stale]
    signupPage,   \* SignupPage component state
    signupNet,    \* signup requests in flight: [live, stale]
    log,          \* the handler that ran last, its response and its calls in order
    dash,         \* EmployerDashboard component state
    fetches,      \* fetchData runs in flight, oldest first
    updates,      \* handleUpdateStatus requests in flight, oldest first
    server,       \* the backend's status of every application
    tabB,         \* a second tab on the same durable storage: [session, pending]
    posted,       \* the internships the backend has created, newest first
    posts         \* handleCreateInternship requests in flight, oldest first

vars == <<session, storage, route, loginPage, loginNet, signupPage, signupNet, log,
          dash, fetches, updates, server, tabB,
          posted, posts>>
dashVars == <<dash, fetches, updates, server, posted, posts>>
otherVars == <<dashVars, tabB>>

\* -------------------------------------------------------------------- text
RECURSIVE Rep(_, _)
Rep(c, n) == IF n = 0 THEN <<>> ELSE <<c>> \o Rep(c, n - 1)

IsSpace(c) == c = " "

RECURSIVE TrimStart(_)
TrimStart(s) ==
    IF s # <<>> /\ IsSpace(Head(s)) THEN TrimStart(Tail(s)) ELSE s

RECURSIVE TrimEnd(_)
TrimEnd(s) ==
    IF s # <<>> /\ IsSpace(s[Len(s)]) THEN TrimEnd(SubSeq(s, 1, Len(s) - 1)) ELSE s

\* String.prototype.trim
Trim(s) == TrimEnd(TrimStart(s))

\* !s : the empty string is the only falsy string
Falsy(s) == s = <<>>

\* ----------------------------------------------------------------- session
Roles == {"student", "employer", "institute"}
NoRole == "none"
NoToken == 0
Tokens == 1..NumTokens

EmptySession == [token |-> NoToken, role |-> NoRole]
EmptyStorage == [token |-> NoToken, role |-> NoRole]

\* the states durable storage is left in by login and logout
PersistedStates ==
    {EmptyStorage} \cup {[token |-> t, role |-> r] : t \in Tokens, r \in Roles}

IsAuthenticated(s) == s.token # NoToken
CurrentRole(s) == s.role

\* initialize(): both persisted values present -> authenticated, else empty
StoreInitialize(disk) ==
    IF disk.token # NoToken /\ disk.role # NoRole
    THEN [token |-> disk.token, role |-> disk.role]
    ELSE EmptySession

\* a login that persists the token and leaves the role key alone
StoreLoginTokenOnly(t, r) ==
    [mem |-> [token |-> t, role |-> r], disk |-> [storage EXCEPT !.token = t]]

\* login(token, role): sets the Session and writes token+role to storage
StoreLogin(t, r) ==
    [mem |-> [token |-> t, role |-> r], disk |-> [token |-> t, role |-> r]]

\* a logout that forgets to remove the persisted values
StoreLogoutKeepsDisk == [mem |-> EmptySession, disk |-> storage]

\* logout(): clears the Session and removes the persisted token+role
StoreLogout == [mem |-> EmptySession, disk |-> EmptyStorage]

\* ------------------------------------------------------------- route guard
Dashboard(r) == "/" \o r
Dashboards == {Dashboard(r) : r \in Roles}
Routes == {"/", "/signup", "/forgot-password", "/unauthorized"} \cup Dashboards
ScopeOf(path) == CHOOSE r \in Roles : Dashboard(r) = path

\* a guard that checks authentication only
RouteGuardAuthOnly(s, R) ==
    IF ~IsAuthenticated(s) THEN "login" ELSE "render"

RouteGuard(s, R) ==
    IF ~IsAuthenticated(s) THEN "login"
    ELSE IF CurrentRole(s) # R THEN "unauthorized"
    ELSE "render"

\* LoginPage's effect: an authenticated session with a role leaves "/"
LoginRedirect(s, path) ==
    IF IsAuthenticated(s) /\ CurrentRole(s) # NoRole
    THEN Dashboard(CurrentRole(s))
    ELSE path

\* the route displayed once `path` was requested under session s
Guarded(s, path) ==
    IF path \in Dashboards
    THEN CASE RouteGuard(s, ScopeOf(path)) = "login" -> "/"
           [] RouteGuard(s, ScopeOf(path)) = "unauthorized" -> "/unauthorized"
           [] OTHER -> path
    ELSE path

Settle(s, path) ==
    LET p1 == Guarded(s, path)
        p2 == IF p1 = "/" THEN LoginRedirect(s, p1) ELSE p1
    IN  Guarded(s, p2)

\* -------------------------------------------------------------- API client
ServerMessages == {"", "Invalid request"}
NoResp == [ok |-> FALSE, status |-> -1, token |-> NoToken, role |-> NoRole, message |-> ""]
LoginResponses ==
    {[ok |-> TRUE, status |-> 200, token |-> t, role |-> r, message |-> ""] :
        t \in Tokens, r \in Roles}
FailureResponses ==
    {[ok |-> FALSE, status |-> c, token |-> NoToken, role |-> NoRole, message |-> m] :
        c \in {Unauthorized, 500}, m \in ServerMessages}

\* an API client that surfaces a rejected response without logging out
ApiSeenNoLogout(resp, mem, disk) == [mem |-> mem, disk |-> disk]

\* the store after the API client has seen the response: an
\* authentication-rejected response triggers logout() before the error is thrown
ApiSeen(resp, mem, disk) ==
    IF ~resp.ok /\ resp.status = Unauthorized
    THEN StoreLogout
    ELSE [mem |-> mem, disk |-> disk]

ApiCalls(resp) ==
    IF ~resp.ok /\ resp.status = Unauthorized THEN << <<"logout">> >> ELSE <<>>

\* a catch block that shows the error's message whatever it is
MessageOrEmpty(resp, fallback) == resp.message

\* error.message || fallback
MessageOr(resp, fallback) == IF resp.message = "" THEN fallback ELSE resp.message

\* --------------------------------------------------------------- LoginPage
InitialLoginPage ==
    [email |-> <<>>, password |-> <<>>, role |-> "student", loading |-> FALSE]
NoRequests == [live |-> FALSE, stale |-> 0]
InFlight(net) == (IF net.live THEN 1 ELSE 0) + net.stale

TextInputs == {<<" ">>, <<" ", "a", " ">>, <<"a">>}
LoginPasswordInputs == {Rep("x", n) : n \in 0..MaxPasswordLen}

InitialSignupPage ==
    [role |-> "student", loading |-> FALSE, email |-> <<>>, fullName |-> <<>>,
     password |-> <<>>, confirmPassword |-> <<>>, companyName |-> <<>>,
     companyContact |-> <<>>, instituteName |-> <<>>, aisheCode |-> <<>>,
     instituteContact |-> <<>>]

\* component state and requests once the displayed route becomes `to`:
\* a page keeps its state only while it stays mounted
PageAt(path, initial, to, page) ==
    IF route = path /\ to = path THEN page ELSE initial
NetAt(path, to, net) ==
    IF route = path /\ to # path /\ net.live
    THEN [live |-> FALSE, stale |-> net.stale + 1]
    ELSE net

Show(to, lp, ln, sp, sn) ==
    /\ route' = to
    /\ loginPage' = PageAt("/", InitialLoginPage, to, lp)
    /\ loginNet' = NetAt("/", to, ln)
    /\ signupPage' = PageAt("/signup", InitialSignupPage, to, sp)
    /\ signupNet' = NetAt("/signup", to, sn)

\* the record of the handler that ran last: its name, the response it handled,
\* the calls it made in order, and the Session it started from
Ran(op, resp, calls) == [op |-> op, resp |-> resp, calls |-> calls, was |-> session]

\* ------------------------------------------------- EmployerDashboard state
Statuses == {"pending", "shortlisted", "rejected", "accepted"}
NoId == 0

\* the backend's data: the employer's internships in the order they are
\* listed, and the internship every application was made to
ServerInternships == <<1, 2>>
InternshipOf == <<1, 1>>
\* POST /employers/internships assigns the next id; the list is answered
\* newest first
NewInternshipId == Len(ServerInternships) + Len(posted) + 1
InternshipIds == 1..(Len(ServerInternships) + Len(posted))
ListNow == posted \o ServerInternships
\* GET /employers/my-internships: the list the backend held at some moment
\* since the page was opened
ServedLists == {SubSeq(ListNow, n, Len(ListNow)) : n \in 1..(Len(posted) + 1)}
ApplicationIds == DOMAIN server

InitialForm ==
    [title |-> <<>>, description |-> <<>>, location |-> <<>>, mode |-> "remote",
     duration_weeks |-> 8]

\* internships are held by their ids; applications maps an internship id to
\* its list of [id, status] records
InitialDash ==
    [internships |-> <<>>, applications |-> <<>>, pageLoading |-> TRUE,
     posting |-> FALSE, updatingId |-> NoId, showForm |-> FALSE,
     form |-> InitialForm, selectedInternship |-> NoId]

\* every application starts out pending on the backend
InitialServer == [a \in DOMAIN InternshipOf |-> "pending"]

\* the dashboard is not part of the run: no component, no request
\* a tab that has not been opened
NoTab == [session |-> EmptySession, pending |-> 0]

DashIdle ==
    /\ dash = InitialDash
    /\ fetches = <<>>
    /\ updates = <<>>
    /\ server = InitialServer
    /\ tabB = NoTab
    /\ posted = <<>>
    /\ posts = <<>>

Init ==
    /\ DashIdle
    /\ storage \in PersistedStates
    /\ session = StoreInitialize(storage)
    /\ route = Settle(session, "/")
    /\ loginPage = InitialLoginPage
    /\ loginNet = NoRequests
    /\ signupPage = InitialSignupPage
    /\ signupNet = NoRequests
    /\ log = Ran("initialize", NoResp, <<>>)

\* the user follows a link or enters a URL
Navigate(target) ==
    /\ Show(Settle(session, target), loginPage, loginNet, signupPage, signupNet)
    /\ log' = Ran("navigate", NoResp, << <<"request", target>> >>)
    /\ UNCHANGED <<session, storage>>

SetLoginField(field, v) ==
    /\ route = "/"
    /\ loginPage' = [loginPage EXCEPT ![field] = v]
    /\ log' = Ran(IF field = "role" THEN "setRole" ELSE "edit", NoResp, <<>>)
    /\ UNCHANGED <<session, storage, route, loginNet, signupPage, signupNet>>

\* a validation that omits the minimum-length check
LoginValidationNoMinLength(p) ==
    IF Falsy(Trim(p.email)) THEN "Please enter your email address."
    ELSE IF Falsy(p.password) THEN "Please enter your password."
    ELSE ""

\* handleSubmit up to the await: the validation error, if any
LoginValidation(p) ==
    IF Falsy(Trim(p.email)) THEN "Please enter your email address."
    ELSE IF Falsy(p.password) THEN "Please enter your password."
    ELSE IF Len(p.password) < MinLoginPassword THEN "Password must be at least 6 characters."
    ELSE ""

LoginRequest(p) ==
    [endpoint |-> "/auth/login", email |-> Trim(p.email), password |-> p.password]

LoginSubmit ==
    /\ route = "/"
    /\ ~loginPage.loading
    /\ IF LoginValidation(loginPage) # ""
       THEN /\ log' = Ran("login.submit", NoResp, << <<"toast.error", LoginValidation(loginPage)>> >>)
            /\ UNCHANGED <<loginPage, loginNet>>
       ELSE /\ InFlight(loginNet) < MaxInFlight
            /\ loginPage' = [loginPage EXCEPT !.loading = TRUE]
            /\ loginNet' = [loginNet EXCEPT !.live = TRUE]
            /\ log' = Ran("login.submit", NoResp, << <<"setLoading", TRUE>>,
                                    <<"api.post", LoginRequest(loginPage)>> >>)
    /\ UNCHANGED <<session, storage, route, signupPage, signupNet>>

\* handleSubmit after the await: the calls it makes for a response, in order
LoginCalls(resp) ==
    IF resp.ok
    THEN << <<"login", resp.token, resp.role>>,
            <<"toast.success", "Login successful!">>,
            <<"navigate", Dashboard(resp.role)>>,
            <<"setLoading", FALSE>> >>
    ELSE ApiCalls(resp) \o
         << <<"toast.error", MessageOr(resp, "Login failed. Please try again.")>>,
            <<"setLoading", FALSE>> >>

\* a handleSubmit that calls login() without the role
LoginStoreNoRole(resp) ==
    IF resp.ok THEN StoreLogin(resp.token, NoRole)
    ELSE ApiSeen(resp, session, storage)

\* a handleSubmit that passes the role button selected in the form to login()
LoginStoreFormRole(resp) ==
    IF resp.ok THEN StoreLogin(resp.token, loginPage.role)
    ELSE ApiSeen(resp, session, storage)

\* the store after handleSubmit has handled the response
LoginStore(resp) ==
    IF resp.ok THEN StoreLogin(resp.token, resp.role)
    ELSE ApiSeen(resp, session, storage)

\* a handleSubmit that navigates by the role button selected in the form
LoginTargetFormRole(resp) == IF resp.ok THEN Dashboard(loginPage.role) ELSE route

\* where handleSubmit navigates for the response
LoginTarget(resp) == IF resp.ok THEN Dashboard(resp.role) ELSE route

LoginResponse(live, resp) ==
    /\ IF live THEN loginNet.live ELSE loginNet.stale > 0
    /\ session' = LoginStore(resp).mem
    /\ storage' = LoginStore(resp).disk
    /\ Show(Settle(session', LoginTarget(resp)),
            IF live THEN [loginPage EXCEPT !.loading = FALSE] ELSE loginPage,
            IF live THEN [loginNet EXCEPT !.live = FALSE]
                    ELSE [loginNet EXCEPT !.stale = @ - 1],
            signupPage, signupNet)
    /\ log' = Ran("login.response", resp, LoginCalls(resp))

\* ------------------------------------------------------- UnauthorizedPage
ShowsDashboardLink(s) == IsAuthenticated(s) /\ CurrentRole(s) # NoRole
\* a page that renders the logout button for every Session
ShowsLogoutAlways(s) == TRUE
ShowsLogout(s) == IsAuthenticated(s)
ShowsLoginLink(s) == ~IsAuthenticated(s)

\* the target of "Go to Dashboard"
DashboardLink(s) == Dashboard(CurrentRole(s))

\* the links and buttons the UnauthorizedPage renders for a Session
Offers(s) ==
    (IF ShowsDashboardLink(s) THEN {<<"link", DashboardLink(s)>>} ELSE {}) \cup
    (IF ShowsLogout(s) THEN {<<"button", "logout">>} ELSE {}) \cup
    (IF ShowsLoginLink(s) THEN {<<"link", "/">>} ELSE {})

\* the user follows one of the page's links
LinkClick(to) ==
    /\ route = "/unauthorized"
    /\ <<"link", to>> \in Offers(session)
    /\ Show(Settle(session, to), loginPage, loginNet, signupPage, signupNet)
    /\ log' = Ran("unauthorized.link", NoResp, << <<"request", to>> >>)
    /\ UNCHANGED <<session, storage>>

LogoutClick ==
    /\ route = "/unauthorized"
    /\ ShowsLogout(session)
    /\ session' = StoreLogout.mem
    /\ storage' = StoreLogout.disk
    /\ Show(Settle(session', route), loginPage, loginNet, signupPage, signupNet)
    /\ log' = Ran("logout.click", NoResp, << <<"logout">> >>)

\* the process restarts on the same durable storage
Restart ==
    /\ session' = StoreInitialize(storage)
    /\ route' = Settle(session', route)
    /\ loginPage' = InitialLoginPage
    /\ loginNet' = NoRequests
    /\ signupPage' = InitialSignupPage
    /\ signupNet' = NoRequests
    /\ log' = Ran("restart", NoResp, <<>>)
    /\ UNCHANGED storage

AuthNext ==
    \/ \E target \in Routes : Navigate(target) /\ UNCHANGED otherVars
    \/ \E v \in TextInputs : SetLoginField("email", v) /\ UNCHANGED otherVars
    \/ \E v \in LoginPasswordInputs :
          SetLoginField("password", v) /\ UNCHANGED otherVars
    \/ \E r \in Roles : SetLoginField("role", r) /\ UNCHANGED otherVars
    \/ LoginSubmit /\ UNCHANGED otherVars
    \/ \E live \in BOOLEAN, resp \in LoginResponses \cup FailureResponses :
          LoginResponse(live, resp) /\ UNCHANGED otherVars
    \/ LogoutClick /\ UNCHANGED otherVars
    \/ \E to \in Routes : LinkClick(to) /\ UNCHANGED otherVars
    \/ Restart /\ UNCHANGED otherVars

SpecAuth == Init /\ [][AuthNext]_vars

\* -------------------------------------------------------------- SignupPage
IsDigit(c) == c \in {"0", "1", "2", "3", "4", "5", "6", "7", "8", "9"}

\* value.replace(/\D/g, '')
OnlyDigits(s) == SelectSeq(s, IsDigit)

\* value.slice(0, n)
Slice(s, n) == SubSeq(s, 1, IF Len(s) < n THEN Len(s) ELSE n)

UpperChar(c) == IF c = "a" THEN "A" ELSE c
\* value.toUpperCase()
ToUpperCase(s) == [i \in DOMAIN s |-> UpperChar(s[i])]

\* typed values: email and company name also take a blank value
BlankInputs == {<<" ">>}
NameInputs == {<<" ", "a", " ">>}
SignupPasswordInputs ==
    {Rep("x", n) : n \in (MinSignupPassword - 1)..MaxPasswordLen}
ConfirmInputs == {Rep("x", MinSignupPassword)}
LongContactInputs ==
    {Rep("9", n) : n \in ContactDigits..MaxContactLen} \cup
    {<<"+">> \o Rep("9", ContactDigits)}
ShortContactInputs == {Rep("9", ContactDigits \div 2)}

\* the sessions a process showing the signup form starts from
SignupPersisted == {EmptyStorage, [token |-> 1, role |-> "employer"]}

SignupInit ==
    /\ DashIdle
    /\ storage \in SignupPersisted
    /\ session = StoreInitialize(storage)
    /\ route = Settle(session, "/signup")
    /\ loginPage = InitialLoginPage
    /\ loginNet = NoRequests
    /\ signupPage = InitialSignupPage
    /\ signupNet = NoRequests
    /\ log = Ran("initialize", NoResp, <<>>)

\* the inputs rendered for the selected role
Rendered(field) ==
    CASE field \in {"companyName", "companyContact"} -> signupPage.role = "employer"
      [] field \in {"instituteName", "aisheCode", "instituteContact"} ->
            signupPage.role = "institute"
      [] OTHER -> TRUE

\* a setRole handler that also clears the form
SetSignupFieldClearing(field, v) ==
    /\ route = "/signup"
    /\ Rendered(field)
    /\ signupPage' = IF field = "role"
                      THEN [InitialSignupPage EXCEPT !.role = v]
                      ELSE [signupPage EXCEPT ![field] = v]
    /\ log' = Ran(IF field = "role" THEN "setRole" ELSE "edit", NoResp, <<>>)
    /\ UNCHANGED <<session, storage, route, loginPage, loginNet, signupNet>>

SetSignupField(field, v) ==
    /\ route = "/signup"
    /\ Rendered(field)
    /\ signupPage' = [signupPage EXCEPT ![field] = v]
    /\ log' = Ran(IF field = "role" THEN "setRole" ELSE "edit", NoResp, <<>>)
    /\ UNCHANGED <<session, storage, route, loginPage, loginNet, signupNet>>

\* a contact input that keeps every typed character
ContactValueUnfiltered(typed) == Slice(typed, ContactDigits)

\* the value the contact inputs' onChange stores for the typed text
ContactValue(typed) == Slice(OnlyDigits(typed), ContactDigits)

TypeContact(field, typed) ==
    /\ route = "/signup"
    /\ Rendered(field)
    /\ signupPage' = [signupPage EXCEPT ![field] = ContactValue(typed)]
    /\ log' = Ran("edit.contact", NoResp, << <<"input", field, typed>> >>)
    /\ UNCHANGED <<session, storage, route, loginPage, loginNet, signupNet>>

\* a validateForm whose contact checks accept any non-empty contact
ValidateFormAnyContact(p) ==
    IF Falsy(Trim(p.email)) THEN "Please enter your email address."
    ELSE IF Falsy(Trim(p.fullName)) THEN "Please enter your full name."
    ELSE IF Len(p.password) < MinSignupPassword
         THEN "Password must be at least 8 characters."
    ELSE IF p.password # p.confirmPassword THEN "Passwords do not match."
    ELSE IF p.role = "employer" /\ Falsy(Trim(p.companyName))
         THEN "Please enter your company name."
    ELSE IF p.role = "employer" /\ Falsy(Trim(p.companyContact))
         THEN "Please enter a valid 10-digit contact number."
    ELSE IF p.role = "institute" /\ Falsy(Trim(p.instituteName))
         THEN "Please enter your institute name."
    ELSE IF p.role = "institute" /\ Falsy(Trim(p.aisheCode))
         THEN "Please enter your AISHE code."
    ELSE IF p.role = "institute" /\ Falsy(Trim(p.instituteContact))
         THEN "Please enter a valid 10-digit contact number."
    ELSE ""

\* validateForm: the error it shows, "" when it returns true
ValidateForm(p) ==
    IF Falsy(Trim(p.email)) THEN "Please enter your email address."
    ELSE IF Falsy(Trim(p.fullName)) THEN "Please enter your full name."
    ELSE IF Len(p.password) < MinSignupPassword
         THEN "Password must be at least 8 characters."
    ELSE IF p.password # p.confirmPassword THEN "Passwords do not match."
    ELSE IF p.role = "employer" /\ Falsy(Trim(p.companyName))
         THEN "Please enter your company name."
    ELSE IF p.role = "employer" /\
            (Falsy(Trim(p.companyContact)) \/ Len(p.companyContact) # ContactDigits)
         THEN "Please enter a valid 10-digit contact number."
    ELSE IF p.role = "institute" /\ Falsy(Trim(p.instituteName))
         THEN "Please enter your institute name."
    ELSE IF p.role = "institute" /\ Falsy(Trim(p.aisheCode))
         THEN "Please enter your AISHE code."
    ELSE IF p.role = "institute" /\
            (Falsy(Trim(p.instituteContact)) \/ Len(p.instituteContact) # ContactDigits)
         THEN "Please enter a valid 10-digit contact number."
    ELSE ""

CommonPayload(p) ==
    [email |-> Trim(p.email), full_name |-> Trim(p.fullName), password |-> p.password]

\* adds the fields of one record to another
Extend(a, b) ==
    [k \in DOMAIN a \cup DOMAIN b |-> IF k \in DOMAIN b THEN b[k] ELSE a[k]]

\* a handleSubmit that sends the employer's fields whatever the role
SignupRequestLeaksEmployer(p) ==
    IF p.role = "student"
    THEN [endpoint |-> "/auth/signup",
          payload |-> Extend(CommonPayload(p),
                             [role |-> "student", company_name |-> Trim(p.companyName)])]
    ELSE IF p.role = "employer"
    THEN [endpoint |-> "/auth/signup/employer",
          payload |-> Extend(CommonPayload(p),
                             [company_name |-> Trim(p.companyName),
                              contact_number |-> Trim(p.companyContact)])]
    ELSE [endpoint |-> "/auth/signup/institute",
          payload |-> Extend(CommonPayload(p),
                             [institute_name |-> Trim(p.instituteName),
                              aishe_code |-> Trim(p.aisheCode),
                              contact_number |-> Trim(p.companyContact)])]

\* handleSubmit: the endpoint and payload for the selected role
SignupRequest(p) ==
    IF p.role = "student"
    THEN [endpoint |-> "/auth/signup",
          payload |-> Extend(CommonPayload(p), [role |-> "student"])]
    ELSE IF p.role = "employer"
    THEN [endpoint |-> "/auth/signup/employer",
          payload |-> Extend(CommonPayload(p),
                             [company_name |-> Trim(p.companyName),
                              contact_number |-> Trim(p.companyContact)])]
    ELSE [endpoint |-> "/auth/signup/institute",
          payload |-> Extend(CommonPayload(p),
                             [institute_name |-> Trim(p.instituteName),
                              aishe_code |-> Trim(p.aisheCode),
                              contact_number |-> Trim(p.instituteContact)])]

SignupSubmit ==
    /\ route = "/signup"
    /\ ~signupPage.loading
    /\ IF ValidateForm(signupPage) # ""
       THEN /\ log' = Ran("signup.submit", NoResp,
                          << <<"toast.error", ValidateForm(signupPage)>> >>)
            /\ UNCHANGED <<signupPage, signupNet>>
       ELSE /\ InFlight(signupNet) < MaxSignupInFlight
            /\ signupPage' = [signupPage EXCEPT !.loading = TRUE]
            /\ signupNet' = [signupNet EXCEPT !.live = TRUE]
            /\ log' = Ran("signup.submit", NoResp,
                          << <<"setLoading", TRUE>>,
                             <<"api.post", SignupRequest(signupPage)>> >>)
    /\ UNCHANGED <<session, storage, route, loginPage, loginNet>>

SignupResponses ==
    {[ok |-> TRUE, status |-> 201, token |-> NoToken, role |-> NoRole, message |-> ""]}

\* handleSubmit after the await: the calls it makes for a response, in order
SignupCalls(resp) ==
    IF resp.ok
    THEN << <<"toast.success", "Account created successfully! Please login.">>,
            <<"navigate", "/">>,
            <<"setLoading", FALSE>> >>
    ELSE ApiCalls(resp) \o
         << <<"toast.error", MessageOr(resp, "Signup failed. Please try again.")>>,
            <<"setLoading", FALSE>> >>

\* a handleSubmit that signs the new user in with the response
SignupStoreAutoLogin(resp) ==
    IF resp.ok THEN StoreLogin(1, signupPage.role)
    ELSE ApiSeen(resp, session, storage)

\* the store after handleSubmit has handled the response
SignupStore(resp) == ApiSeen(resp, session, storage)

SignupTarget(resp) == IF resp.ok THEN "/" ELSE route

SignupResponse(live, resp) ==
    /\ IF live THEN signupNet.live ELSE signupNet.stale > 0
    /\ session' = SignupStore(resp).mem
    /\ storage' = SignupStore(resp).disk
    /\ Show(Settle(session', SignupTarget(resp)), loginPage, loginNet,
            IF live THEN [signupPage EXCEPT !.loading = FALSE] ELSE signupPage,
            IF live THEN [signupNet EXCEPT !.live = FALSE]
                    ELSE [signupNet EXCEPT !.stale = @ - 1])
    /\ log' = Ran("signup.response", resp, SignupCalls(resp))

SignupNext ==
    \/ \E target \in {"/", "/signup"} : Navigate(target) /\ UNCHANGED otherVars
    \/ \E r \in Roles : SetSignupField("role", r) /\ UNCHANGED otherVars
    \/ \E f \in {"email", "fullName", "companyName", "instituteName"},
          v \in NameInputs : SetSignupField(f, v) /\ UNCHANGED otherVars
    \/ \E f \in {"email", "companyName"}, v \in BlankInputs :
          SetSignupField(f, v) /\ UNCHANGED otherVars
    \/ \E v \in SignupPasswordInputs :
          SetSignupField("password", v) /\ UNCHANGED otherVars
    \/ \E v \in ConfirmInputs :
          SetSignupField("confirmPassword", v) /\ UNCHANGED otherVars
    \/ \E v \in NameInputs :
          SetSignupField("aisheCode", ToUpperCase(v)) /\ UNCHANGED otherVars
    \/ \E f \in {"companyContact", "instituteContact"}, v \in LongContactInputs :
          TypeContact(f, v) /\ UNCHANGED otherVars
    \/ \E v \in ShortContactInputs :
          TypeContact("companyContact", v) /\ UNCHANGED otherVars
    \/ SignupSubmit /\ UNCHANGED otherVars
    \/ \E live \in BOOLEAN, resp \in SignupResponses \cup FailureResponses :
          SignupResponse(live, resp) /\ UNCHANGED otherVars

SpecSignup == SignupInit /\ [][SignupNext]_vars

\* ------------------------------------------------------------------ claims
HasCall(calls, name) == \E i \in DOMAIN calls : calls[i][1] = name
CalledBefore(calls, a, b) ==
    \E i, j \in DOMAIN calls : i < j /\ calls[i][1] = a /\ calls[j][1] = b
CallsNamed(calls, name) == {i \in DOMAIN calls : calls[i][1] = name}
Rejected(resp) == resp # NoResp /\ ~resp.ok /\ resp.status = Unauthorized

\* C1: in every reachable state the Session is authenticated iff its token is
\* present, and its role is present iff it is authenticated; the views that
\* read isAuthenticated never see it true with the role absent.
C1_SessionInvariant ==
    /\ IsAuthenticated(session) <=> session.token \in Tokens
    /\ CurrentRole(session) \in Roles <=> IsAuthenticated(session)
    /\ ~IsAuthenticated(session) => CurrentRole(session) = NoRole
    /\ ShowsLogout(session) => ShowsDashboardLink(session)

C1_Witness ==
    /\ log.op = "login.response" /\ log.resp.ok
    /\ ~IsAuthenticated(log.was)
    /\ IsAuthenticated(session) /\ CurrentRole(session) \in Roles

\* C2: the guard's outcome is decided by the Session and the requested scope
\* alone: login for an unauthenticated Session, unauthorized for another
\* role, render for the same role; so the route displayed is a role's
\* dashboard only while the Session is authenticated with that role.
C2_RouteGuard ==
    /\ \A R \in Roles :
          /\ ~IsAuthenticated(session) => RouteGuard(session, R) = "login"
          /\ IsAuthenticated(session) /\ session.role # R
                => RouteGuard(session, R) = "unauthorized"
          /\ IsAuthenticated(session) /\ session.role = R
                => RouteGuard(session, R) = "render"
    /\ \A R \in Roles :
          route = Dashboard(R) => IsAuthenticated(session) /\ session.role = R
    /\ \A R \in Roles :
          log.op = "navigate" /\ log.calls[1] = <<"request", Dashboard(R)>> =>
              route = IF ~IsAuthenticated(session) THEN "/"
                      ELSE IF session.role # R THEN "/unauthorized"
                      ELSE Dashboard(R)

C2_Witness ==
    /\ log.op = "navigate"
    /\ log.calls[1] = <<"request", "/employer">>
    /\ IsAuthenticated(session) /\ session.role = "student"
    /\ route = "/unauthorized"

\* C3: when a response is authentication-rejected, logout() runs before the
\* caller surfaces the error: the Session is unauthenticated and the
\* persisted token and role are removed in the state where the error shows.
C3_RejectedLogsOutFirst ==
    Rejected(log.resp) =>
        /\ session = EmptySession
        /\ storage = EmptyStorage
        /\ CalledBefore(log.calls, "logout", "toast.error")

C3_Witness ==
    /\ Rejected(log.resp)
    /\ IsAuthenticated(log.was)
    /\ ~IsAuthenticated(session)

\* C4: logout() from any Session leaves it unauthenticated with token and
\* role absent in memory and in durable storage; when the Session was
\* already logged out it is left as it was.
C4_LogoutClears ==
    HasCall(log.calls, "logout") =>
        /\ ~IsAuthenticated(session)
        /\ session = EmptySession
        /\ storage = EmptyStorage
        /\ log.was = EmptySession => session = log.was

C4_Witness ==
    /\ log.op = "logout.click"
    /\ IsAuthenticated(log.was)
    /\ session = EmptySession /\ storage = EmptyStorage

C4_WitnessLoggedOut ==
    /\ HasCall(log.calls, "logout")
    /\ log.was = EmptySession
    /\ session = EmptySession

\* C5: after login(t, r) currentRole() is r and the Session is authenticated
\* with token t; a restart on the same durable storage makes no call and
\* restores the Session it had before.
C5_LoginThenRestart ==
    /\ log.op = "login.response" /\ log.resp.ok =>
          /\ CurrentRole(session) = log.resp.role
          /\ session.token = log.resp.token
          /\ IsAuthenticated(session)
    /\ log.op = "restart" => session = log.was /\ log.calls = <<>>
    /\ StoreInitialize(storage) = session

C5_Witness ==
    /\ log.op = "restart"
    /\ session = [token |-> 1, role |-> "employer"]
    /\ log.was = session

\* C6: a login submit sends POST /auth/login only when the trimmed email is
\* non-empty and the password is non-empty and at least 6 long; any other
\* submit shows one error notification and changes nothing else.
C6_LoginValidates ==
    [][log'.op = "login.submit" =>
        IF /\ Trim(loginPage.email) # <<>>
           /\ loginPage.password # <<>>
           /\ Len(loginPage.password) >= MinLoginPassword
        THEN /\ log'.calls[Len(log'.calls)] =
                   <<"api.post", [endpoint |-> "/auth/login",
                                  email |-> Trim(loginPage.email),
                                  password |-> loginPage.password]>>
             /\ loginNet'.live /\ loginPage'.loading
        ELSE /\ Len(log'.calls) = 1
             /\ log'.calls[1][1] = "toast.error"
             /\ ~loginPage'.loading
             /\ UNCHANGED <<session, storage, route, loginPage, loginNet>>]_vars

C6_Witness ==
    /\ log.op = "login.submit"
    /\ Trim(loginPage.email) # <<>>
    /\ Len(loginPage.password) = MinLoginPassword - 1
    /\ log.calls = << <<"toast.error", "Password must be at least 6 characters.">> >>
    /\ ~loginNet.live

\* C7 as stated: on a successful response login(access_token, role) precedes
\* navigate, the target is the dashboard of the role the server returned,
\* which is the Session's role; on a failed response neither is called and
\* the Session is unchanged.
C7_Original ==
    log.op = "login.response" =>
        IF log.resp.ok
        THEN /\ CalledBefore(log.calls, "login", "navigate")
             /\ \A i \in CallsNamed(log.calls, "navigate") :
                   log.calls[i][2] = Dashboard(log.resp.role)
             /\ \A i \in CallsNamed(log.calls, "login") :
                   log.calls[i] = <<"login", log.resp.token, log.resp.role>>
             /\ CurrentRole(session) = log.resp.role
             /\ route = Dashboard(log.resp.role)
        ELSE /\ ~HasCall(log.calls, "login")
             /\ ~HasCall(log.calls, "navigate")
             /\ session = log.was

\* C7 amended: as stated, except that a failed response leaves the Session
\* unchanged only when it is not authentication-rejected; a rejected one
\* leaves it logged out.
C7_LoginThenNavigate ==
    log.op = "login.response" =>
        IF log.resp.ok
        THEN /\ CalledBefore(log.calls, "login", "navigate")
             /\ \A i \in CallsNamed(log.calls, "navigate") :
                   log.calls[i][2] = Dashboard(log.resp.role)
             /\ \A i \in CallsNamed(log.calls, "login") :
                   log.calls[i] = <<"login", log.resp.token, log.resp.role>>
             /\ CurrentRole(session) = log.resp.role
             /\ route = Dashboard(log.resp.role)
        ELSE /\ ~HasCall(log.calls, "login")
             /\ ~HasCall(log.calls, "navigate")
             /\ IF Rejected(log.resp) THEN session = EmptySession
                                       ELSE session = log.was

C7_Witness ==
    /\ log.op = "login.response" /\ log.resp.ok
    /\ log.resp.role = "employer"
    /\ route = "/employer"
    /\ IsAuthenticated(log.was)

\* the request a submit sent, when it sent one
SentRequests(calls) == {calls[i][2] : i \in CallsNamed(calls, "api.post")}
TenDigits(s) == Len(s) = 10 /\ \A i \in DOMAIN s : IsDigit(s[i])

\* C8: a signup submit sends its request iff the trimmed email and full name
\* are non-empty, the password has at least 8 characters and equals its
\* confirmation, and, for an employer, the trimmed company name is non-empty
\* and the contact has exactly 10 digits, for an institute, the trimmed
\* institute name and AISHE code are non-empty and the contact has exactly
\* 10 digits; a rejected submit shows one error and changes nothing else.
C8_SignupValidates ==
    [][log'.op = "signup.submit" =>
        IF /\ Trim(signupPage.email) # <<>>
           /\ Trim(signupPage.fullName) # <<>>
           /\ Len(signupPage.password) >= 8
           /\ signupPage.password = signupPage.confirmPassword
           /\ signupPage.role = "employer" =>
                 /\ Trim(signupPage.companyName) # <<>>
                 /\ TenDigits(signupPage.companyContact)
           /\ signupPage.role = "institute" =>
                 /\ Trim(signupPage.instituteName) # <<>>
                 /\ Trim(signupPage.aisheCode) # <<>>
                 /\ TenDigits(signupPage.instituteContact)
        THEN /\ HasCall(log'.calls, "api.post")
             /\ signupNet'.live /\ signupPage'.loading
        ELSE /\ Len(log'.calls) = 1
             /\ log'.calls[1][1] = "toast.error"
             /\ UNCHANGED <<session, storage, route, signupPage, signupNet>>]_vars

C8_Witness ==
    /\ log.op = "signup.submit"
    /\ signupPage.role = "employer"
    /\ signupPage.companyContact = Rep("9", 10)
    /\ HasCall(log.calls, "api.post")
    /\ signupNet.live

C8_WitnessRejected ==
    /\ log.op = "signup.submit"
    /\ signupPage.role = "employer"
    /\ signupPage.companyContact = Rep("9", 5)
    /\ log.calls = << <<"toast.error", "Please enter a valid 10-digit contact number.">> >>
    /\ ~signupNet.live

\* C9 as stated: no signup submit or response calls login() or changes the
\* Session or the persisted token and role; a successful signup navigates
\* to "/".
C9_Original ==
    [][log'.op \in {"signup.submit", "signup.response"} =>
        /\ ~HasCall(log'.calls, "login")
        /\ UNCHANGED <<session, storage>>
        /\ log'.op = "signup.response" /\ log'.resp.ok =>
              \E i \in DOMAIN log'.calls : log'.calls[i] = <<"navigate", "/">>]_vars

\* C9 amended: signup never calls login() and never authenticates; the
\* Session and the persisted token and role are unchanged by every signup
\* submit and response, except that an authentication-rejected response
\* leaves them cleared by the API client's logout; a successful signup
\* navigates to "/".
C9_SignupNeverAuthenticates ==
    [][log'.op \in {"signup.submit", "signup.response"} =>
        /\ ~HasCall(log'.calls, "login")
        /\ IsAuthenticated(session') => IsAuthenticated(session)
        /\ IF Rejected(log'.resp)
           THEN session' = EmptySession /\ storage' = EmptyStorage
           ELSE UNCHANGED <<session, storage>>
        /\ log'.op = "signup.response" /\ log'.resp.ok =>
              \E i \in DOMAIN log'.calls : log'.calls[i] = <<"navigate", "/">>]_vars

C9_Witness ==
    /\ log.op = "signup.response" /\ log.resp.ok
    /\ \E i \in DOMAIN log.calls : log.calls[i] = <<"navigate", "/">>
    /\ ~IsAuthenticated(session) /\ session = log.was
    /\ storage = EmptyStorage
    /\ route = "/"

\* C10: the request a validated signup sends is decided by the selected
\* role: a student posts email, full_name, password and role "student" to
\* /auth/signup; an employer posts email, full_name, password, company_name
\* and contact_number to /auth/signup/employer; an institute posts email,
\* full_name, password, institute_name, aishe_code and contact_number to
\* /auth/signup/institute; no other field is sent.
C10_SignupRequest ==
    log.op = "signup.submit" =>
        \A req \in SentRequests(log.calls) :
            /\ req.payload.email = Trim(signupPage.email)
            /\ req.payload.full_name = Trim(signupPage.fullName)
            /\ req.payload.password = signupPage.password
            /\ signupPage.role = "student" =>
                  /\ req.endpoint = "/auth/signup"
                  /\ DOMAIN req.payload = {"email", "full_name", "password", "role"}
                  /\ req.payload.role = "student"
            /\ signupPage.role = "employer" =>
                  /\ req.endpoint = "/auth/signup/employer"
                  /\ DOMAIN req.payload =
                        {"email", "full_name", "password", "company_name", "contact_number"}
                  /\ req.payload.company_name = Trim(signupPage.companyName)
                  /\ req.payload.contact_number = signupPage.companyContact
            /\ signupPage.role = "institute" =>
                  /\ req.endpoint = "/auth/signup/institute"
                  /\ DOMAIN req.payload =
                        {"email", "full_name", "password", "institute_name", "aishe_code",
                         "contact_number"}
                  /\ req.payload.institute_name = Trim(signupPage.instituteName)
                  /\ req.payload.aishe_code = Trim(signupPage.aisheCode)
                  /\ req.payload.contact_number = signupPage.instituteContact

C10_Witness ==
    /\ log.op = "signup.submit"
    /\ signupPage.role = "institute"
    /\ signupPage.companyName # <<>>
    /\ signupPage.companyContact # <<>>
    /\ SentRequests(log.calls) # {}

\* C13: the unauthorized view offers an authenticated Session with role r
\* exactly a link to /r and the logout button, and an unauthenticated Session
\* exactly a link to "/"; following the offered link shows that route.
C13_UnauthorizedOffers ==
    /\ route = "/unauthorized" =>
          Offers(session) =
              IF IsAuthenticated(session)
              THEN {<<"link", Dashboard(session.role)>>, <<"button", "logout">>}
              ELSE {<<"link", "/">>}
    /\ log.op = "unauthorized.link" =>
          /\ route = log.calls[1][2]
          /\ route = IF IsAuthenticated(session) THEN Dashboard(session.role) ELSE "/"

C13_Witness ==
    /\ route = "/unauthorized"
    /\ IsAuthenticated(session)
    /\ session.role = "institute"
    /\ Offers(session) = {<<"link", "/institute">>, <<"button", "logout">>}

C13_WitnessLoggedOut ==
    /\ route = "/unauthorized"
    /\ ~IsAuthenticated(session)
    /\ log.op = "logout.click"
    /\ Offers(session) = {<<"link", "/">>}

C13_WitnessFollowed ==
    /\ log.op = "unauthorized.link"
    /\ route = "/student"

\* C14: the signup form always has exactly one of the three roles selected,
\* a freshly shown form has student selected, and selecting a role changes
\* the selected role only: every other field of the form, the pending
\* requests, the Session and the route stay as they were.
C14_RoleSwitch ==
    /\ [](signupPage.role \in Roles)
    /\ [](log.op = "initialize" => signupPage.role = "student")
    /\ [][route # "/signup" /\ route' = "/signup" => signupPage'.role = "student"]_vars
    /\ [][log'.op = "setRole" =>
            /\ \E r \in Roles : signupPage' = [signupPage EXCEPT !.role = r]
            /\ UNCHANGED <<session, storage, route, signupNet>>]_vars

C14_Witness ==
    /\ log.op = "setRole"
    /\ signupPage.role = "institute"
    /\ signupPage.email # <<>>
    /\ signupPage.fullName # <<>>
    /\ signupPage.password # <<>>
    /\ signupPage.confirmPassword # <<>>
    /\ signupPage.companyName # <<>>

\* C20: whatever is typed into the contact inputs, companyContact and
\* instituteContact hold decimal digits only and at most 10 characters, so a
\* contact of length 10 is exactly 10 digits.
C20_ContactDigits ==
    \A f \in {"companyContact", "instituteContact"} :
        /\ Len(signupPage[f]) <= ContactDigits
        /\ \A i \in DOMAIN signupPage[f] : IsDigit(signupPage[f][i])
        /\ Len(signupPage[f]) = ContactDigits => TenDigits(signupPage[f])
        /\ log.op = "edit.contact" /\ log.calls[1][2] = f =>
              signupPage[f] = Slice(OnlyDigits(log.calls[1][3]), ContactDigits)

\* a typed text with a non-digit and more than 10 characters was filtered
C20_Witness ==
    /\ log.op = "edit.contact"
    /\ \E i \in DOMAIN log.calls[1][3] : ~IsDigit(log.calls[1][3][i])
    /\ Len(log.calls[1][3]) > ContactDigits
    /\ signupPage.instituteContact = Rep("9", ContactDigits)

C20_WitnessTooLong ==
    /\ log.op = "edit.contact"
    /\ log.calls[1][3] = Rep("9", ContactDigits + 1)
    /\ signupPage.companyContact = Rep("9", ContactDigits)

\* ------------------------------------------------------- EmployerDashboard
\* the backend's data changes only through this dashboard's requests
ApplicationsOf(i) ==
    SelectSeq([a \in ApplicationIds |-> a], LAMBDA a : InternshipOf[a] = i)

\* GET /employers/internships/{i}/applications, as the backend answers it now
ServerApplications(i) ==
    [k \in DOMAIN ApplicationsOf(i) |->
        [id |-> ApplicationsOf(i)[k], status |-> server[ApplicationsOf(i)[k]]]]

\* PUT /employers/applications/{id}/status: the transitions the backend accepts
ValidTransition(from, to) ==
    <<from, to>> \in {<<"pending", "shortlisted">>, <<"pending", "rejected">>,
                      <<"shortlisted", "accepted">>}

DataOk == [ok |-> TRUE, status |-> 200, token |-> NoToken, role |-> NoRole, message |-> ""]
DashFailures ==
    {[ok |-> FALSE, status |-> Unauthorized, token |-> NoToken, role |-> NoRole,
      message |-> ""],
     [ok |-> FALSE, status |-> 500, token |-> NoToken, role |-> NoRole,
      message |-> "Invalid request"]}
DashResponses == {DataOk} \cup DashFailures

\* one run of fetchData: the request it awaits, the internships whose
\* applications it has asked for so far, its local appsMap, and what the
\* backend held for the awaited applications request when it was sent
NewRun ==
    [pc |-> "list", data |-> <<>>, asked |-> <<>>, appsMap |-> <<>>, sent |-> <<>>,
     live |-> TRUE]

\* the fetch effect runs once on mount, and once more under React.StrictMode
\* in a development build
MountRuns == {<<NewRun>>, [k \in 1..StrictModeRuns |-> NewRun]}

Remove(seq, k) ==
    [j \in 1..(Len(seq) - 1) |-> IF j < k THEN seq[j] ELSE seq[j + 1]]
Range(seq) == {seq[k] : k \in DOMAIN seq}

\* the dashboard keeps its state only while it stays mounted; the requests of
\* an unmounted dashboard stay in flight
DashAt(to, d) == IF route = "/employer" /\ to = "/employer" THEN d ELSE InitialDash
StaleAt(to, reqs) ==
    IF to = "/employer" THEN reqs
    ELSE [k \in DOMAIN reqs |-> [reqs[k] EXCEPT !.live = FALSE]]

\* the end of a dashboard handler that saw response resp and left the
\* component state d, the fetch runs f and the status updates u
DashDoneAll(resp, d, f, u, p) ==
    LET store == ApiSeen(resp, session, storage)
        to == Settle(store.mem, route)
    IN  /\ session' = store.mem
        /\ storage' = store.disk
        /\ Show(to, loginPage, loginNet, signupPage, signupNet)
        /\ dash' = DashAt(to, d)
        /\ fetches' = StaleAt(to, f)
        /\ updates' = StaleAt(to, u)
        /\ posts' = StaleAt(to, p)
        /\ UNCHANGED tabB

\* the end of a handler that is not handleCreateInternship
DashDone(resp, d, f, u) == DashDoneAll(resp, d, f, u, posts) /\ UNCHANGED posted

DashInit ==
    /\ storage = [token |-> 1, role |-> "employer"]
    /\ session = StoreInitialize(storage)
    /\ route = Settle(session, "/employer")
    /\ loginPage = InitialLoginPage
    /\ loginNet = NoRequests
    /\ signupPage = InitialSignupPage
    /\ signupNet = NoRequests
    /\ dash = InitialDash
    /\ fetches \in MountRuns
    /\ updates = <<>>
    /\ server = InitialServer
    /\ tabB = NoTab
    /\ posted = <<>>
    /\ posts = <<>>
    /\ log = Ran("initialize", NoResp, << <<"api.get", "/employers/my-internships">> >>)

Last(seq) == seq[Len(seq)]

\* a fetch loop that leaves no entry for an internship whose request failed
StoreResultSkipsFailed(appsMap, id, resp, data) ==
    IF resp.ok THEN Extend(appsMap, [x \in {id} |-> data]) ELSE appsMap

\* appsMap[internship.id] = appsRes.data, or [] from the inner catch
StoreResult(appsMap, id, resp, data) ==
    Extend(appsMap, [x \in {id} |-> IF resp.ok THEN data ELSE <<>>])

\* what fetchData does once run holds the result of its last request: the
\* next internship's request, or setApplications and the finally block
FetchCalls(run) ==
    IF Len(run.asked) < Len(run.data)
    THEN << <<"api.get.applications", run.data[Len(run.asked) + 1]>> >>
    ELSE << <<"setApplications", run.appsMap>>, <<"setPageLoading", FALSE>> >>

FetchAdvance(k, run, resp, d) ==
    IF Len(run.asked) < Len(run.data)
    THEN DashDone(resp, d,
                  [fetches EXCEPT ![k] =
                      [run EXCEPT !.pc = "apps",
                                  !.asked = Append(@, run.data[Len(@) + 1]),
                                  !.sent =
                                      ServerApplications(
                                          run.data[Len(run.asked) + 1])]],
                  updates)
    ELSE DashDone(resp,
                  IF run.live
                  THEN [d EXCEPT !.applications = run.appsMap, !.pageLoading = FALSE]
                  ELSE d,
                  Remove(fetches, k), updates)

\* the response to GET /employers/my-internships reaches run k
FetchListResponse(k, resp) ==
    /\ k \in DOMAIN fetches
    /\ fetches[k].pc = "list"
    /\ \E data \in ServedLists :
       LET run == [fetches[k] EXCEPT !.data = IF resp.ok THEN data ELSE @]
       IN  IF resp.ok
           THEN /\ FetchAdvance(k, run, resp,
                                IF run.live
                                THEN [dash EXCEPT !.internships = data]
                                ELSE dash)
                /\ log' = Ran("fetch.list", resp,
                              << <<"setInternships", data>> >> \o
                              FetchCalls(run))
           ELSE /\ DashDone(resp,
                            IF run.live THEN [dash EXCEPT !.pageLoading = FALSE] ELSE dash,
                            Remove(fetches, k), updates)
                /\ log' = Ran("fetch.list", resp,
                              ApiCalls(resp) \o
                              << <<"toast.error",
                                   MessageOr(resp, "Failed to load internships")>>,
                                 <<"setPageLoading", FALSE>> >>)
    /\ UNCHANGED server

\* the response to an applications request reaches run k; a successful one
\* carries the list the backend held when the request was sent, or holds now
FetchAppsResponse(k, resp, fresh) ==
    /\ k \in DOMAIN fetches
    /\ fetches[k].pc = "apps"
    /\ LET run == fetches[k]
           id == Last(run.asked)
           data == IF fresh THEN ServerApplications(id) ELSE run.sent
           stored == [run EXCEPT !.appsMap = StoreResult(@, id, resp, data)]
       IN  /\ FetchAdvance(k, stored, resp, dash)
           /\ log' = Ran("fetch.applications", resp,
                         ApiCalls(resp) \o
                         << <<"appsMap", id, stored.appsMap>> >> \o
                         FetchCalls(stored))
    /\ UNCHANGED server

\* applications[internship.id] || []
Shown(i) == IF i \in DOMAIN dash.applications THEN dash.applications[i] ELSE <<>>

\* the statuses the buttons rendered for an application of status st ask for
Offered(st) ==
    CASE st = "pending" -> {"shortlisted", "rejected"}
      [] st = "shortlisted" -> {"accepted"}
      [] OTHER -> {}

\* disabled={updatingId === app.id}
Disabled(a) == dash.updatingId = a

\* an updater that gives the new status to every application of the list
SetStatusAll(apps, a, st) ==
    [k \in DOMAIN apps |-> [apps[k] EXCEPT !.status = st]]

\* prev[internshipId].map(app => app.id === applicationId ? {...app, status} : app)
SetStatus(apps, a, st) ==
    [k \in DOMAIN apps |->
        IF apps[k].id = a THEN [apps[k] EXCEPT !.status = st] ELSE apps[k]]

\* the user expands or collapses an internship
ToggleInternship(i) ==
    /\ route = "/employer"
    /\ ~dash.pageLoading
    /\ i \in Range(dash.internships)
    /\ dash' = [dash EXCEPT !.selectedInternship = IF @ = i THEN NoId ELSE i]
    /\ log' = Ran("select", NoResp, <<>>)
    /\ UNCHANGED <<session, storage, route, loginPage, loginNet, signupPage,
                   signupNet, fetches, updates, server, tabB, posted, posts>>

\* the user clicks a status button of application a, shown under internship i
UpdateStatusClick(a, status, i) ==
    /\ route = "/employer"
    /\ ~dash.pageLoading
    /\ i \in Range(dash.internships)
    /\ dash.selectedInternship = i
    /\ \E k \in DOMAIN Shown(i) :
          Shown(i)[k].id = a /\ status \in Offered(Shown(i)[k].status)
    /\ ~Disabled(a)
    /\ Len(fetches) + Len(updates) < MaxPending
    /\ dash' = [dash EXCEPT !.updatingId = a]
    /\ updates' = Append(updates,
                         [applicationId |-> a, status |-> status, internshipId |-> i,
                          live |-> TRUE])
    /\ log' = Ran("status.click", NoResp,
                  << <<"handleUpdateStatus", a, status, i>>,
                     <<"setUpdatingId", a>>, <<"api.put", a, status>> >>)
    /\ UNCHANGED <<session, storage, route, loginPage, loginNet, signupPage,
                   signupNet, fetches, server, tabB, posted, posts>>

UpdateCalls(u, resp) ==
    << <<"handleUpdateStatus", u.applicationId, u.status, u.internshipId>> >> \o
    (IF resp.ok
     THEN << <<"setApplications">>, <<"toast.success", "Application " \o u.status>> >>
     ELSE ApiCalls(resp) \o
          << <<"toast.error", MessageOr(resp, "Failed to update status")>> >>) \o
    << <<"setUpdatingId", NoId>> >>

\* the response to a status update reaches handleUpdateStatus; the backend
\* answers a transition it accepts with success, and then holds the new status
UpdateResponse(j, resp) ==
    /\ j \in DOMAIN updates
    /\ resp.ok => ValidTransition(server[updates[j].applicationId], updates[j].status)
    /\ server' = IF resp.ok
                 THEN [server EXCEPT ![updates[j].applicationId] = updates[j].status]
                 ELSE server
    /\ LET u == updates[j]
           d == IF ~u.live THEN dash
                ELSE IF resp.ok
                THEN [dash EXCEPT
                        !.applications[u.internshipId] =
                            SetStatus(@, u.applicationId, u.status),
                        !.updatingId = NoId]
                ELSE [dash EXCEPT !.updatingId = NoId]
       IN  /\ DashDone(resp, d, fetches, Remove(updates, j))
           /\ log' = Ran("status.response", resp, UpdateCalls(u, resp))

DashNext ==
    \/ \E k \in 1..MaxPending, resp \in DashResponses : FetchListResponse(k, resp)
    \/ \E k \in 1..MaxPending, resp \in DashResponses, fresh \in BOOLEAN :
          FetchAppsResponse(k, resp, fresh)
    \/ \E i \in InternshipIds : ToggleInternship(i)
    \/ \E a \in ApplicationIds, status \in Statuses, i \in InternshipIds :
          UpdateStatusClick(a, status, i)
    \/ \E j \in 1..MaxPending, resp \in DashResponses : UpdateResponse(j, resp)

SpecDash == DashInit /\ [][DashNext]_vars

\* the status the dashboard shows for application a under internship i:
\* "none" when the application is not in the list
Displayed(d, i, a) ==
    IF i \in DOMAIN d.applications /\ \E k \in DOMAIN d.applications[i] : d.applications[i][k].id = a
    THEN d.applications[i][CHOOSE k \in DOMAIN d.applications[i] :
                              d.applications[i][k].id = a].status
    ELSE "none"

\* the call of that name in a handler's record
CallNamed(calls, name) == calls[CHOOSE n \in DOMAIN calls : calls[n][1] = name]

\* the dashboard's buttons request only pending -> shortlisted, pending ->
\* rejected and shortlisted -> accepted, for the status displayed at the click
C11_OffersOnly ==
    [][log'.op = "status.click" =>
          LET call == CallNamed(log'.calls, "handleUpdateStatus")
          IN  /\ Displayed(dash, call[4], call[2]) \in {"pending", "shortlisted"}
              /\ ValidTransition(Displayed(dash, call[4], call[2]), call[3])]_vars

\* C11: the dashboard requests status changes only along pending ->
\* shortlisted, pending -> rejected and shortlisted -> accepted, no step moves
\* the displayed status of an application directly from pending to accepted,
\* and no status change is requested for an application displayed as accepted
\* or rejected.
C11_StatusTransitions ==
    [][/\ log'.op = "status.click" =>
            LET call == CallNamed(log'.calls, "handleUpdateStatus")
            IN  /\ Displayed(dash, call[4], call[2]) \notin {"accepted", "rejected"}
                /\ ValidTransition(Displayed(dash, call[4], call[2]), call[3])
       /\ \A i \in InternshipIds, a \in ApplicationIds :
             ~(Displayed(dash, i, a) = "pending" /\ Displayed(dash', i, a) = "accepted")
      ]_vars

\* C12: a fetchData run whose internships request succeeded asks for the
\* applications of every internship in turn, whatever failed before; a failed
\* applications request leaves an empty list and raises no notification; the
\* run ends with setApplications of a map that has an entry for every
\* internship, which the mounted dashboard then shows.
C12_FetchLoop ==
    /\ \A k \in DOMAIN fetches :
          /\ fetches[k].asked = SubSeq(ServerInternships, 1, Len(fetches[k].asked))
          /\ fetches[k].pc = "apps" =>
                /\ fetches[k].asked # <<>>
                /\ DOMAIN fetches[k].appsMap =
                      Range(fetches[k].asked) \ {Last(fetches[k].asked)}
    /\ log.op = "fetch.list" /\ log.resp.ok =>
          CallNamed(log.calls, "api.get.applications")[2] = ServerInternships[1]
    /\ log.op = "fetch.applications" =>
          LET stored == CallNamed(log.calls, "appsMap")
          IN  /\ ~HasCall(log.calls, "toast.error")
              /\ stored[2] \in DOMAIN stored[3]
              /\ ~log.resp.ok => stored[3][stored[2]] = <<>>
              /\ IF stored[2] # Last(ServerInternships)
                 THEN /\ HasCall(log.calls, "api.get.applications")
                      /\ ~HasCall(log.calls, "setApplications")
                 ELSE /\ HasCall(log.calls, "setApplications")
                      /\ DOMAIN CallNamed(log.calls, "setApplications")[2] =
                            Range(ServerInternships)
                      /\ route = "/employer" =>
                            /\ dash.applications =
                                  CallNamed(log.calls, "setApplications")[2]
                            /\ ~dash.pageLoading

\* the first applications request failed, the run went on, and the dashboard
\* shows an empty list for that internship
C12_Witness ==
    /\ log.op = "fetch.applications"
    /\ log.resp.ok
    /\ route = "/employer"
    /\ HasCall(log.calls, "setApplications")
    /\ dash.applications[1] = <<>>
    /\ ServerApplications(1) # <<>>
    /\ DOMAIN dash.applications = {1, 2}

C12_WitnessNextAsked ==
    /\ log.op = "fetch.applications"
    /\ ~log.resp.ok
    /\ HasCall(log.calls, "api.get.applications")
    /\ \E k \in DOMAIN fetches : fetches[k].appsMap = <<<<>>>> /\ fetches[k].asked = <<1, 2>>

\* C18: when the response to handleUpdateStatus(applicationId, status,
\* internshipId) reaches the mounted dashboard, a success changes the status
\* of that application under that internship and nothing else of the
\* applications map, and notifies success; a failure leaves the map as it
\* was and shows an error notification with the server's message or the
\* fallback; in both outcomes updatingId becomes null, and the internships,
\* the form and the other component state stay as they were.
C18_UpdateFrame ==
    [][log'.op = "status.response" /\ route = "/employer" =>
          LET call == CallNamed(log'.calls, "handleUpdateStatus")
              a == call[2]
              st == call[3]
              i == call[4]
          IN  /\ log'.resp.ok =>
                    /\ dash' = [dash EXCEPT !.updatingId = NoId,
                                            !.applications =
                                                [n \in DOMAIN dash.applications |->
                                                    IF n # i THEN dash.applications[n]
                                                    ELSE [k \in DOMAIN dash.applications[i] |->
                                                            IF dash.applications[i][k].id = a
                                                            THEN [id |-> a, status |-> st]
                                                            ELSE dash.applications[i][k]]]]
                    /\ Displayed(dash, i, a) # "none" => Displayed(dash', i, a) = st
                    /\ HasCall(log'.calls, "toast.success")
                    /\ ~HasCall(log'.calls, "toast.error")
              /\ ~log'.resp.ok =>
                    /\ route' = "/employer" => dash' = [dash EXCEPT !.updatingId = NoId]
                    /\ HasCall(log'.calls, "toast.error")
                    /\ CallNamed(log'.calls, "toast.error")[2] =
                          IF log'.resp.message = "" THEN "Failed to update status"
                          ELSE log'.resp.message
                    /\ ~HasCall(log'.calls, "toast.success")
              /\ Last(log'.calls) = <<"setUpdatingId", NoId>>
              /\ route' = "/employer" => dash'.updatingId = NoId
              /\ UNCHANGED fetches \/ route' # "/employer"]_vars

\* a success changed application 1 and left application 2 of the same list alone
C18_Witness ==
    /\ log.op = "status.response"
    /\ log.resp.ok
    /\ route = "/employer"
    /\ dash.applications[1] =
          <<[id |-> 1, status |-> "shortlisted"], [id |-> 2, status |-> "pending"]>>
    /\ dash.updatingId = NoId

C18_WitnessFailure ==
    /\ log.op = "status.response"
    /\ ~log.resp.ok
    /\ route = "/employer"
    /\ HasCall(log.calls, "toast.error")
    /\ dash.updatingId = NoId
    /\ Displayed(dash, 1, 1) = "pending"

\* C19: no two status-update requests of the mounted dashboard are in flight
\* for the same application.
C19_NoSecondRequest ==
    \A j, k \in DOMAIN updates :
        j # k /\ updates[j].live /\ updates[k].live =>
            updates[j].applicationId # updates[k].applicationId

\* ------------------------------------------- LoginPage and SignupPage together
\* both forms in one run, with one valid and one invalid value per input, and
\* every response to a mounted form's request eventually delivered
FormsNext ==
    \/ \E target \in {"/", "/signup"} : Navigate(target) /\ UNCHANGED otherVars
    \/ \E v \in NameInputs : SetLoginField("email", v) /\ UNCHANGED otherVars
    \/ \E v \in {Rep("x", MinLoginPassword - 1), Rep("x", MinLoginPassword)} :
          SetLoginField("password", v) /\ UNCHANGED otherVars
    \/ LoginSubmit /\ UNCHANGED otherVars
    \/ \E live \in BOOLEAN, resp \in LoginResponses \cup FailureResponses :
          LoginResponse(live, resp) /\ UNCHANGED otherVars
    \/ \E f \in {"email", "fullName"}, v \in NameInputs :
          SetSignupField(f, v) /\ UNCHANGED otherVars
    \/ \E v \in {Rep("x", MinSignupPassword - 1), Rep("x", MinSignupPassword)} :
          SetSignupField("password", v) /\ UNCHANGED otherVars
    \/ \E v \in ConfirmInputs : SetSignupField("confirmPassword", v) /\ UNCHANGED otherVars
    \/ SignupSubmit /\ UNCHANGED otherVars
    \/ \E live \in BOOLEAN, resp \in SignupResponses \cup FailureResponses :
          SignupResponse(live, resp) /\ UNCHANGED otherVars

SpecForms ==
    /\ Init
    /\ [][FormsNext]_vars
    /\ WF_vars(\E resp \in LoginResponses \cup FailureResponses :
                  LoginResponse(TRUE, resp) /\ UNCHANGED otherVars)
    /\ WF_vars(\E resp \in SignupResponses \cup FailureResponses :
                  SignupResponse(TRUE, resp) /\ UNCHANGED otherVars)

\* C15: a login or signup submit that passes validation sets loading and
\* sends the request; on the mounted form loading is true exactly while its
\* request is pending; a success redirects (login: to the dashboard of the
\* returned role, signup: to "/"); a failure is caught, shown as an error
\* notification with the server's message or the generic fallback, and leaves
\* the form idle on its page; and once the response is delivered loading is
\* false again.
C15_SubmitLifecycle ==
    /\ [](/\ route = "/" => (loginPage.loading <=> loginNet.live)
          /\ route = "/signup" => (signupPage.loading <=> signupNet.live)
          /\ log.op = "login.submit" /\ HasCall(log.calls, "api.post") =>
                route = "/" /\ loginPage.loading
          /\ log.op = "signup.submit" /\ HasCall(log.calls, "api.post") =>
                route = "/signup" /\ signupPage.loading
          /\ log.op = "login.response" =>
                /\ IF log.resp.ok
                   THEN /\ route = Dashboard(log.resp.role)
                        /\ ~HasCall(log.calls, "toast.error")
                   ELSE /\ HasCall(log.calls, "toast.error")
                        /\ CallNamed(log.calls, "toast.error")[2] =
                              IF log.resp.message = ""
                              THEN "Login failed. Please try again."
                              ELSE log.resp.message
                        /\ ~HasCall(log.calls, "navigate")
          /\ log.op = "signup.response" =>
                /\ IF log.resp.ok
                   THEN /\ HasCall(log.calls, "navigate")
                        /\ route = Settle(session, "/")
                        /\ ~HasCall(log.calls, "toast.error")
                   ELSE /\ HasCall(log.calls, "toast.error")
                        /\ CallNamed(log.calls, "toast.error")[2] =
                              IF log.resp.message = ""
                              THEN "Signup failed. Please try again."
                              ELSE log.resp.message
                        /\ ~HasCall(log.calls, "navigate"))
    /\ [][/\ log'.op = "login.response" /\ loginNet.live /\ ~loginNet'.live =>
                /\ ~loginPage'.loading
                /\ ~log'.resp.ok =>
                      route' = "/" /\ loginPage' = [loginPage EXCEPT !.loading = FALSE]
          /\ log'.op = "signup.response" /\ signupNet.live /\ ~signupNet'.live =>
                /\ ~signupPage'.loading
                /\ ~log'.resp.ok =>
                      route' = "/signup" /\
                      signupPage' = [signupPage EXCEPT !.loading = FALSE]
         ]_vars
    /\ loginPage.loading ~> ~loginPage.loading
    /\ signupPage.loading ~> ~signupPage.loading

\* a failed login left the filled form idle on the login page
C15_Witness ==
    /\ log.op = "login.response"
    /\ ~log.resp.ok
    /\ log.resp.message = ""
    /\ route = "/"
    /\ ~loginPage.loading
    /\ ~loginNet.live
    /\ LoginValidation(loginPage) = ""

C15_WitnessSubmitting ==
    /\ log.op = "signup.submit"
    /\ signupPage.loading
    /\ signupNet.live

C15_WitnessSignupFailed ==
    /\ log.op = "signup.response"
    /\ ~log.resp.ok
    /\ log.resp.message # ""
    /\ route = "/signup"
    /\ ValidateForm(signupPage) = ""
    /\ ~signupPage.loading

C15_WitnessRedirect ==
    /\ log.op = "login.response"
    /\ log.resp.ok
    /\ route = "/institute"

\* ------------------------------------------------------- the whole frontend
\* what a step of another page does to the dashboard: it is mounted when the
\* route becomes /employer, which starts the fetch effect, and unmounted when
\* the route leaves /employer, which leaves its requests in flight
MaxAppPending == 2

\* requests in flight over the whole application
Pending(ln, sn, f, u) == InFlight(ln) + InFlight(sn) + Len(f) + Len(u)
AppCap == Pending(loginNet', signupNet', fetches', updates') <= MaxAppPending

DashFollows ==
    /\ dash' = DashAt(route', dash)
    /\ fetches' \in IF route # "/employer" /\ route' = "/employer"
                    THEN {StaleAt(route, fetches) \o runs : runs \in MountRuns}
                    ELSE {StaleAt(route', fetches)}
    /\ updates' = StaleAt(route', updates)
    /\ posts' = StaleAt(route', posts)
    /\ AppCap
    /\ UNCHANGED <<server, tabB, posted>>

\* a restart drops every request and mounts the page of the route afresh
DashRestarts ==
    /\ dash' = InitialDash
    /\ fetches' \in IF route' = "/employer" THEN MountRuns ELSE {<<>>}
    /\ updates' = <<>>
    /\ posts' = <<>>
    /\ UNCHANGED <<server, tabB, posted>>

AppInit ==
    /\ storage \in {EmptyStorage, [token |-> 1, role |-> "student"]}
    /\ session = StoreInitialize(storage)
    /\ route = Settle(session, "/")
    /\ loginPage = InitialLoginPage
    /\ loginNet = NoRequests
    /\ signupPage = InitialSignupPage
    /\ signupNet = NoRequests
    /\ dash = InitialDash
    /\ fetches = <<>>
    /\ updates = <<>>
    /\ server = SubSeq(InitialServer, 1, 1)
    /\ tabB = NoTab
    /\ posted = <<>>
    /\ posts = <<>>
    /\ log = Ran("initialize", NoResp, <<>>)

AppNext ==
    \/ \E target \in {"/", "/signup", "/employer"} : Navigate(target) /\ DashFollows
    \/ \E v \in NameInputs : SetLoginField("email", v) /\ DashFollows
    \/ SetLoginField("password", Rep("x", MinLoginPassword)) /\ DashFollows
    \/ LoginSubmit /\ DashFollows
    \/ \E live \in BOOLEAN,
          resp \in {r \in LoginResponses : r.token = 1 /\ r.role # "institute"}
                   \cup DashFailures :
          LoginResponse(live, resp) /\ DashFollows
    \/ LogoutClick /\ DashFollows
    \/ \E to \in Routes : LinkClick(to) /\ DashFollows
    \/ Restart /\ DashRestarts
    \/ \E f \in {"email", "fullName"}, v \in NameInputs :
          SetSignupField(f, v) /\ DashFollows
    \/ \E f \in {"password", "confirmPassword"} :
          SetSignupField(f, Rep("x", MinSignupPassword)) /\ DashFollows
    \/ SignupSubmit /\ DashFollows
    \/ \E live \in BOOLEAN, resp \in SignupResponses \cup DashFailures :
          SignupResponse(live, resp) /\ DashFollows
    \/ DashNext /\ AppCap

SpecApp == AppInit /\ [][AppNext]_vars

\* the operations the claim names as leaving durable storage alone
NonWriters ==
    {"signup.submit", "signup.response", "login.submit", "edit", "setRole",
     "navigate", "select", "status.click", "status.response", "fetch.list",
     "fetch.applications", "unauthorized.link", "restart"}

\* C16: durable storage holds both the token and the role or neither; a
\* successful login writes the two together, every logout (the button and the
\* one forced by an authentication-rejected response) removes the two
\* together, and no other step (signup, validation failure, failed login,
\* dashboard actions) changes durable storage
C16_StorageTogether ==
    /\ [](storage.token = NoToken <=> storage.role = NoRole)
    /\ [][/\ (log'.op = "login.response" /\ log'.resp.ok) =>
                 storage' = [token |-> log'.resp.token, role |-> log'.resp.role]
          /\ HasCall(log'.calls, "logout") => storage' = EmptyStorage
          /\ (/\ ~(log'.op = "login.response" /\ log'.resp.ok)
              /\ ~HasCall(log'.calls, "logout")) => storage' = storage
          /\ log'.op \in NonWriters =>
                 \/ storage' = storage
                 \/ (~log'.resp.ok /\ log'.resp.status = Unauthorized)]_vars

\* a login has replaced the persisted pair of an earlier login
C16_Witness ==
    /\ log.op = "login.response" /\ log.resp.ok
    /\ log.was.token # NoToken
    /\ log.was.role # log.resp.role
    /\ storage = [token |-> log.resp.token, role |-> log.resp.role]
\* a dashboard request was answered with an authentication rejection
C16_WitnessForced ==
    /\ log.op \in {"status.response", "fetch.list", "fetch.applications"}
    /\ HasCall(log.calls, "logout")
    /\ log.was.token # NoToken
    /\ storage = EmptyStorage
\* signup succeeded while a login was persisted
C16_WitnessSignup ==
    /\ log.op = "signup.response" /\ log.resp.ok
    /\ storage.token # NoToken
\* a login failed without an authentication rejection
C16_WitnessFailedLogin ==
    /\ log.op = "login.response" /\ ~log.resp.ok /\ log.resp.status # Unauthorized
    /\ storage.token # NoToken

\* ------------------------------------------- two tabs on one durable storage
MaxTabCalls == 1

\* a tab that re-reads durable storage whenever another tab has written it
SyncedFromStorage(disk, mem) == StoreInitialize(disk)

\* nothing carries a write of durable storage to another tab's memory
Unsynced(disk, mem) == mem

\* the second tab across a step of the first
OtherTab == tabB' = [tabB EXCEPT !.session = Unsynced(storage', @)]

\* an operation of the second tab's store that leaves store, with pending
\* API calls still in flight; the first tab's pages are not involved
TabActs(store, pending, op, resp, calls) ==
    /\ storage' = store.disk
    /\ tabB' = [session |-> store.mem, pending |-> pending]
    /\ session' = Unsynced(storage', session)
    /\ log' = [op |-> op, resp |-> resp, calls |-> calls, was |-> tabB.session]
    /\ UNCHANGED <<route, loginPage, loginNet, signupPage, signupNet, dashVars>>

TabLogin(t, r) ==
    TabActs(StoreLogin(t, r), tabB.pending, "tab.login", NoResp,
            << <<"login", t, r>> >>)

TabLogout ==
    /\ ShowsLogout(tabB.session)
    /\ TabActs(StoreLogout, tabB.pending, "tab.logout", NoResp, << <<"logout">> >>)

TabApiCall ==
    /\ tabB.pending < MaxTabCalls
    /\ TabActs([mem |-> tabB.session, disk |-> storage], tabB.pending + 1,
               "tab.call", NoResp, << <<"api.get">> >>)

TabApiResponse(resp) ==
    /\ tabB.pending > 0
    /\ TabActs(ApiSeen(resp, tabB.session, storage), tabB.pending - 1,
               "tab.response", resp, ApiCalls(resp))

\* the second tab is reloaded: initialize() reads durable storage again
TabReload ==
    TabActs([mem |-> StoreInitialize(storage), disk |-> storage], 0,
            "tab.reload", NoResp, <<>>)

TabOps == {"tab.login", "tab.logout", "tab.call", "tab.response", "tab.reload"}

TabsInit ==
    /\ storage \in {EmptyStorage, [token |-> 1, role |-> "student"]}
    /\ session = StoreInitialize(storage)
    /\ route = Settle(session, "/")
    /\ loginPage = InitialLoginPage
    /\ loginNet = NoRequests
    /\ signupPage = InitialSignupPage
    /\ signupNet = NoRequests
    /\ dash = InitialDash
    /\ fetches = <<>>
    /\ updates = <<>>
    /\ server = InitialServer
    /\ posted = <<>>
    /\ posts = <<>>
    /\ tabB = [session |-> StoreInitialize(storage), pending |-> 0]
    /\ log = Ran("initialize", NoResp, <<>>)

TabsNext ==
    \/ \E target \in {"/", "/employer"} :
          Navigate(target) /\ OtherTab /\ UNCHANGED dashVars
    \/ \E v \in NameInputs : SetLoginField("email", v) /\ OtherTab /\ UNCHANGED dashVars
    \/ SetLoginField("password", Rep("x", MinLoginPassword))
          /\ OtherTab /\ UNCHANGED dashVars
    \/ LoginSubmit /\ OtherTab /\ UNCHANGED dashVars
    \/ \E live \in BOOLEAN,
          resp \in {r \in LoginResponses : r.token = 1 /\ r.role # "institute"}
                   \cup DashFailures :
          LoginResponse(live, resp) /\ OtherTab /\ UNCHANGED dashVars
    \/ LogoutClick /\ OtherTab /\ UNCHANGED dashVars
    \/ \E to \in Routes : LinkClick(to) /\ OtherTab /\ UNCHANGED dashVars
    \/ Restart /\ OtherTab /\ UNCHANGED dashVars
    \/ \E t \in Tokens \ {1}, r \in {"student", "employer"} : TabLogin(t, r)
    \/ TabLogout
    \/ TabApiCall
    \/ \E resp \in DashResponses : TabApiResponse(resp)
    \/ TabReload

SpecTabs == TabsInit /\ [][TabsNext]_vars

\* the pair a login() call of the step's calls persists
Written(calls) ==
    [token |-> CallNamed(calls, "login")[2], role |-> CallNamed(calls, "login")[3]]

\* C17: with two tabs on one durable storage, no step of one tab (its logout
\* included) changes the other tab's in-memory Session; a tab that is
\* authenticated stays so until its own logout, its own reload, or a response
\* to its own API call that is authentication-rejected, and after such a
\* response it is unauthenticated; durable storage always holds what the last
\* login() or logout() of either tab wrote
C17_TabsUnsynchronized ==
    /\ [][log'.op \notin TabOps => tabB' = tabB]_vars
    /\ [][log'.op \in TabOps => session' = session]_vars
    /\ [][(IsAuthenticated(tabB.session) /\ ~IsAuthenticated(tabB'.session)) =>
             \/ log'.op \in {"tab.logout", "tab.reload"}
             \/ (/\ log'.op = "tab.response"
                 /\ ~log'.resp.ok /\ log'.resp.status = Unauthorized)]_vars
    /\ [][(IsAuthenticated(session) /\ ~IsAuthenticated(session')) =>
             \/ log'.op \in {"logout.click", "restart"}
             \/ (/\ log'.op = "login.response"
                 /\ ~log'.resp.ok /\ log'.resp.status = Unauthorized)]_vars
    /\ [][(/\ log'.op = "tab.response"
           /\ ~log'.resp.ok /\ log'.resp.status = Unauthorized) =>
             (tabB'.session = EmptySession /\ storage' = EmptyStorage)]_vars
    /\ [][storage' = IF HasCall(log'.calls, "login") THEN Written(log'.calls)
                     ELSE IF HasCall(log'.calls, "logout") THEN EmptyStorage
                     ELSE storage]_vars

\* the first tab has logged out and the second is still authenticated
C17_Witness ==
    /\ log.op = "logout.click"
    /\ storage = EmptyStorage
    /\ IsAuthenticated(tabB.session)
    /\ tabB.pending > 0
\* the stale second tab has had its API call rejected
C17_WitnessRejected ==
    /\ log.op = "tab.response"
    /\ HasCall(log.calls, "logout")
    /\ IsAuthenticated(log.was)
    /\ ~IsAuthenticated(tabB.session)
    /\ ~IsAuthenticated(session)
\* the second tab's login has replaced what the first tab's login persisted
C17_WitnessLastWriter ==
    /\ log.op = "tab.login"
    /\ IsAuthenticated(session)
    /\ storage # [token |-> session.token, role |-> session.role]
    /\ storage = [token |-> tabB.session.token, role |-> tabB.session.role]

\* ------------------------------------------------ posting a new internship
MaxPosted == 1

\* what the user types into a text field of the form
FormTexts == {<<" ">>, <<"a">>}

\* "Post Internship" opens the form, "Cancel" closes it
SetShowForm(b) ==
    /\ route = "/employer"
    /\ ~dash.pageLoading
    /\ b # dash.showForm
    /\ dash' = [dash EXCEPT !.showForm = b]
    /\ log' = Ran("form.show", NoResp, << <<"setShowForm", b>> >>)
    /\ UNCHANGED <<session, storage, route, loginPage, loginNet, signupPage,
                   signupNet, fetches, updates, server, tabB, posted, posts>>

\* handleFormChange for a text field
FormChange(name, v) ==
    /\ route = "/employer"
    /\ ~dash.pageLoading
    /\ dash.showForm
    /\ dash' = [dash EXCEPT !.form[name] = v]
    /\ log' = Ran("form.edit", NoResp, <<>>)
    /\ UNCHANGED <<session, storage, route, loginPage, loginNet, signupPage,
                   signupNet, fetches, updates, server, tabB, posted, posts>>

\* the checks of handleCreateInternship: the first message, or "" when valid
CreateValidation(f) ==
    IF Trim(f.title) = <<>> THEN "Please enter a title"
    ELSE IF Trim(f.description) = <<>> THEN "Please enter a description"
    ELSE IF Trim(f.location) = <<>> THEN "Please enter a location"
    ELSE ""

\* the form is submitted; the submit button is disabled while posting
CreateSubmit ==
    /\ route = "/employer"
    /\ ~dash.pageLoading
    /\ dash.showForm
    /\ ~dash.posting
    /\ IF CreateValidation(dash.form) # ""
       THEN /\ log' = Ran("create.submit", NoResp,
                          << <<"toast.error", CreateValidation(dash.form)>> >>)
            /\ UNCHANGED <<dash, posts>>
       ELSE /\ Len(posted) + Len(posts) < MaxPosted
            /\ dash' = [dash EXCEPT !.posting = TRUE]
            /\ posts' = Append(posts, [form |-> dash.form, live |-> TRUE])
            /\ log' = Ran("create.submit", NoResp,
                          << <<"setPosting", TRUE>>, <<"api.post", dash.form>> >>)
    /\ UNCHANGED <<session, storage, route, loginPage, loginNet, signupPage,
                   signupNet, fetches, updates, server, tabB, posted>>

\* prev => [response.data, ...prev]
AddInternship(list, id) == <<id>> \o list

CreateCalls(resp, id) ==
    (IF resp.ok
     THEN << <<"setInternships", id>>, <<"setApplications", id, <<>> >>,
             <<"setForm", InitialForm>>, <<"setShowForm", FALSE>>,
             <<"toast.success", "Internship posted successfully!">> >>
     ELSE ApiCalls(resp) \o
          << <<"toast.error", MessageOr(resp, "Failed to post internship")>> >>) \o
    << <<"setPosting", FALSE>> >>

\* the response to POST /employers/internships reaches
\* handleCreateInternship; a successful one echoes the internship the backend
\* has created, with its id
CreateResponse(j, resp) ==
    /\ j \in DOMAIN posts
    /\ posted' = IF resp.ok THEN <<NewInternshipId>> \o posted ELSE posted
    /\ LET id == NewInternshipId
           d == IF ~posts[j].live THEN dash
                ELSE IF resp.ok
                THEN [dash EXCEPT
                        !.internships = AddInternship(@, id),
                        !.applications = Extend(@, [x \in {id} |-> <<>>]),
                        !.form = InitialForm,
                        !.showForm = FALSE,
                        !.posting = FALSE]
                ELSE [dash EXCEPT !.posting = FALSE]
       IN  /\ DashDoneAll(resp, d, fetches, updates, Remove(posts, j))
           /\ log' = Ran("create.response", resp, CreateCalls(resp, id))
    /\ UNCHANGED server

\* the dashboard of an employer with one application received
PostInit ==
    /\ storage = [token |-> 1, role |-> "employer"]
    /\ session = StoreInitialize(storage)
    /\ route = Settle(session, "/employer")
    /\ loginPage = InitialLoginPage
    /\ loginNet = NoRequests
    /\ signupPage = InitialSignupPage
    /\ signupNet = NoRequests
    /\ dash = InitialDash
    /\ fetches \in MountRuns
    /\ updates = <<>>
    /\ server = SubSeq(InitialServer, 1, 1)
    /\ tabB = NoTab
    /\ posted = <<>>
    /\ posts = <<>>
    /\ log = Ran("initialize", NoResp, << <<"api.get", "/employers/my-internships">> >>)

PostNext ==
    \/ DashNext
    \/ \E b \in BOOLEAN : SetShowForm(b)
    \/ \E name \in {"title", "description", "location"}, v \in FormTexts :
          FormChange(name, v)
    \/ CreateSubmit
    \/ \E j \in 1..MaxPosted, resp \in DashResponses : CreateResponse(j, resp)

SpecPost == PostInit /\ [][PostNext]_vars

\* applications[internship.id] is defined for every internship listed
HaveEntries ==
    \A i \in Range(dash.internships) : i \in DOMAIN dash.applications
\* the internships this page has been told were created, newest first, lead
\* the list, each with an empty application list
CreatedAtHead ==
    /\ Len(dash.internships) >= Len(posted)
    /\ SubSeq(dash.internships, 1, Len(posted)) = posted
    /\ \A n \in DOMAIN posted :
          posted[n] \in DOMAIN dash.applications /\ dash.applications[posted[n]] = <<>>

\* the first half of C21 alone: once loaded, every listed internship has an
\* entry in the applications map
C21_HaveEntries == (route = "/employer" /\ ~dash.pageLoading) => HaveEntries
\* the second half of C21 alone: a created internship stays at the head of
\* the list with an empty application list
C21_CreatedStays == (route = "/employer" /\ ~dash.pageLoading) => CreatedAtHead

\* C21: once the employer dashboard has finished loading (pageLoading is
\* false), every internship of the displayed list has an entry in the
\* applications map, and every internship added by a successful create is at
\* the head of the list with an empty application list, whatever creates,
\* status updates and runs of the fetch effect have happened
C21_LoadedListComplete ==
    (route = "/employer" /\ ~dash.pageLoading) => (HaveEntries /\ CreatedAtHead)
====
